---- MODULE Spec2Model ----
(***************************************************************************)
(* Model of the todo record service (services.todoService) of              *)
(* sunfmin/todo2 and of the rows it keeps in the "todos" table.            *)
(*                                                                         *)
(* A description is a string.  Strings are kept run-length encoded: a      *)
(* sequence of runs [c |-> code point, n |-> repetitions], adjacent runs   *)
(* having different code points, so that two encodings are equal exactly   *)
(* when the strings are, and the 500 limit is reachable.                   *)
(***************************************************************************)
EXTENDS Integers, Sequences, FiniteSets, TLC

VARIABLES
    todos,      \* the rows of table "todos": uuid -> row
    nextId,     \* the next value uuid.New() hands out
    now,        \* the clock read by gorm's NowFunc
    pc,         \* per request goroutine: where it is in its service call
    req,        \* per request goroutine: the request it is serving
    tmp,        \* per request goroutine: locals kept across provider calls,
                \* and for an Update the clock value at which the call began
    last,       \* the response the step just taken delivered, with its request
    inputs,     \* what the clients of this run submit: descriptions, updates,
                \* limits, offsets, and how many records they create
    pages,      \* the List responses, with their requests, that a paging
                \* client has collected since the store last changed
    fault,      \* per request goroutine: what its next provider call meets:
                \* a live context and a working provider ("none"), a
                \* cancelled context, a context past its deadline, or a
                \* provider that fails
    before      \* per request goroutine of an audited client: the rows as
                \* they were when its pending call began

vars == <<todos, nextId, now, pc, req, tmp, last, inputs, pages, fault, before>>

----------------------------------------------------------------------------
(* Bounds *)

MaxIds == 2          \* uuids a request can name; records one client creates
MaxShared == 1       \* records created in a run of concurrent clients
MaxTime == 1         \* the clock runs 0..MaxTime
MaxRuns == 2         \* runs per generated description
MaxPages == 3        \* List responses a paging client collects

Procs == {1, 2}      \* request goroutines served concurrently

----------------------------------------------------------------------------
(* Strings *)

MaxDescriptionLength == 500

\* code points: U+0061, U+00E9, U+0020, U+000A, U+00A0, U+200B
Chars == {"a", "e_acute", "sp", "nl", "nbsp", "zwsp"}

\* bytes of the UTF-8 encoding, which is what Go's len(string) counts
Utf8Len(c) ==
    CASE c = "a" -> 1
      [] c = "sp" -> 1
      [] c = "nl" -> 1
      [] c = "e_acute" -> 2
      [] c = "nbsp" -> 2
      [] c = "zwsp" -> 3

\* unicode.IsSpace, the predicate strings.TrimSpace cuts with:
\* U+0020, U+000A and U+00A0 are White_Space, U+200B (category Cf) is not
IsSpace(c) == c \in {"sp", "nl", "nbsp"}

\* what PostgreSQL's trim(text) removes: U+0020 only
IsPgBlank(c) == c = "sp"

RunCounts == {1, MaxDescriptionLength}

Runs == [c : Chars, n : RunCounts]

RECURSIVE StringsOfRuns(_)
StringsOfRuns(k) ==
    IF k = 0 THEN {<<>>}
    ELSE LET shorter == StringsOfRuns(k - 1)
         IN  shorter \cup
             {Append(s, r) : s \in {t \in shorter : Len(t) = k - 1}, r \in Runs}

WellFormed(s) == \A i \in 1..(Len(s) - 1) : s[i].c # s[i + 1].c

\* every string of at most MaxRuns runs
AllDescriptions == {s \in StringsOfRuns(MaxRuns) : WellFormed(s)}

Str(c, n) == <<[c |-> c, n |-> n]>>

RECURSIVE ByteLen(_)
ByteLen(s) ==
    IF s = <<>> THEN 0 ELSE s[1].n * Utf8Len(s[1].c) + ByteLen(Tail(s))

RECURSIVE RuneCount(_)
RuneCount(s) ==
    IF s = <<>> THEN 0 ELSE s[1].n + RuneCount(Tail(s))

RECURSIVE TrimLeft(_)
TrimLeft(s) ==
    IF s # <<>> /\ IsSpace(s[1].c) THEN TrimLeft(Tail(s)) ELSE s

RECURSIVE TrimRight(_)
TrimRight(s) ==
    IF s # <<>> /\ IsSpace(s[Len(s)].c)
    THEN TrimRight(SubSeq(s, 1, Len(s) - 1))
    ELSE s

TrimSpace(s) == TrimRight(TrimLeft(s))

RECURSIVE PgTrim(_)
PgTrim(s) ==
    IF s # <<>> /\ IsPgBlank(s[1].c) THEN PgTrim(Tail(s))
    ELSE IF s # <<>> /\ IsPgBlank(s[Len(s)].c) THEN PgTrim(SubSeq(s, 1, Len(s) - 1))
    ELSE s

----------------------------------------------------------------------------
(* Errors and identifiers *)

ErrTodoNotFound == "ErrTodoNotFound"
ErrInvalidInput == "ErrInvalidInput"
ErrEmptyDescription == "ErrEmptyDescription"
ErrDescriptionTooLong == "ErrDescriptionTooLong"
ErrRecordNotFound == "gorm.ErrRecordNotFound"
ErrCheckViolation == "check constraint violated"
NoError == "nil"
ErrCanceled == "context.Canceled"
ErrDeadlineExceeded == "context.DeadlineExceeded"
ErrProvider == "provider error"

Faults == {"canceled", "deadline", "provider"}

\* the error a provider call made through db.WithContext(ctx) comes back with
FaultErr(f) ==
    IF f = "canceled" THEN ErrCanceled
    ELSE IF f = "deadline" THEN ErrDeadlineExceeded
    ELSE ErrProvider

\* the error code the handler answers a service error with: the first of the
\* four sentinel errors the error wraps, INTERNAL_ERROR when it wraps none
HandleServiceError(err) ==
    IF err = ErrCanceled THEN "client closed request"
    ELSE IF err = ErrDeadlineExceeded THEN "gateway timeout"
    ELSE IF err = ErrEmptyDescription THEN "EMPTY_DESCRIPTION"
    ELSE IF err = ErrDescriptionTooLong THEN "DESCRIPTION_TOO_LONG"
    ELSE IF err = ErrTodoNotFound THEN "TODO_NOT_FOUND"
    ELSE IF err = ErrInvalidInput THEN "INVALID_REQUEST"
    ELSE "INTERNAL_ERROR"

\* uuid.Nil, the zero UUID: well-formed, never handed out by uuid.New()
NilUuid == 0

Uuids == 1..MaxIds

\* the text of a request's id: a UUID in canonical form, or something else
IdString(u) == <<"uuid", u>>
Malformed == <<"invalid-uuid", 0>>
IdStrings == {IdString(u) : u \in Uuids} \cup {Malformed}

\* uuid.Parse: the UUID and whether the text was one
UuidParse(s) == IF s[1] = "uuid" THEN [id |-> s[2], ok |-> TRUE]
                ELSE [id |-> NilUuid, ok |-> FALSE]

\* an optional field of a request (a nil or non-nil pointer)
None == <<>>
Some(v) == <<v>>
Optional(S) == {None} \cup {Some(v) : v \in S}

\* every error answered as a client error
ErrorStatusAllBadRequest(err) ==
    IF err = ErrCanceled THEN 499
    ELSE IF err = ErrDeadlineExceeded THEN 504
    ELSE IF HandleServiceError(err) = "INTERNAL_ERROR" THEN 500
    ELSE 400

\* the HTTP status HandleServiceError answers a service error with
ErrorStatus(err) ==
    IF err = ErrCanceled THEN 499
    ELSE IF err = ErrDeadlineExceeded THEN 504
    ELSE IF HandleServiceError(err) = "TODO_NOT_FOUND" THEN 404
    ELSE IF HandleServiceError(err) = "INTERNAL_ERROR" THEN 500
    ELSE 400

\* the HTTP status of the handler's answer to a call of kind op that
\* returned err
ResponseStatus(op, err) ==
    IF err # NoError THEN ErrorStatus(err)
    ELSE IF op = "Create" THEN 201
    ELSE IF op = "Delete" THEN 204
    ELSE 200

----------------------------------------------------------------------------
(* Rows and their wire form *)

\* models.Todo without its key
Row(description, completed, created_at, updated_at) ==
    [description |-> description, completed |-> completed,
     created_at |-> created_at, updated_at |-> updated_at]

\* the column constraints of models.Todo: varchar(500) counts characters,
\* check:length(trim(description)) > 0
CheckConstraints(row) ==
    /\ RuneCount(row.description) <= MaxDescriptionLength
    /\ RuneCount(PgTrim(row.description)) > 0

toProto(id, row) ==
    [id |-> IdString(id), description |-> row.description,
     completed |-> row.completed,
     created_at |-> row.created_at, updated_at |-> row.updated_at]

Exists(id) == id \in DOMAIN todos

\* a store with room for one row: an insert replaces what is there
InsertReplaces(id, row) == [i \in {id} |-> row]

Insert(id, row) == [i \in DOMAIN todos \cup {id} |-> IF i = id THEN row ELSE todos[i]]

\* a DELETE that marks the row and leaves it in the table
RemoveMarked(id) == todos

\* a DELETE whose WHERE clause is lost: every row goes
RemoveEvery(id) == <<>>

Remove(id) == [i \in DOMAIN todos \ {id} |-> todos[i]]

Idle == [op |-> "none"]

NoTodo == <<>>

\* what last holds after a step that returned nothing to any caller
NoCall == [req |-> Idle, err |-> NoError, out |-> NoTodo]

\* a call returns: the goroutine is free again, the response is delivered
Return(p, request, err, out) ==
    /\ pc' = [pc EXCEPT ![p] = "idle"]
    /\ req' = [req EXCEPT ![p] = Idle]
    /\ tmp' = [tmp EXCEPT ![p] = <<>>]
    /\ last' = [req |-> request, err |-> err, out |-> out]

----------------------------------------------------------------------------
(* todoService.Create *)

CreateRequest(d) == [op |-> "Create", description |-> d]

\* a Create that takes the lowest identifier no stored record has
CreateLowestFree(p, d) ==
    LET desc == TrimSpace(d)
        row == Row(desc, FALSE, now, now)
        id == CHOOSE u \in 1..nextId : ~Exists(u) /\ \A v \in 1..(u - 1) : Exists(v)
    IN  /\ pc[p] = "idle"
        /\ IF desc = <<>>
           THEN /\ Return(p, CreateRequest(d), ErrEmptyDescription, NoTodo)
                /\ UNCHANGED <<todos, nextId>>
           ELSE IF ByteLen(desc) > MaxDescriptionLength
           THEN /\ Return(p, CreateRequest(d), ErrDescriptionTooLong, NoTodo)
                /\ UNCHANGED <<todos, nextId>>
           ELSE /\ nextId <= inputs.creates
                /\ nextId' = nextId + 1
                /\ todos' = Insert(id, row)
                /\ Return(p, CreateRequest(d), NoError, toProto(id, row))
        /\ UNCHANGED <<now, inputs>>

\* a Create that goes to the provider before it validates
CreateValidatesLate(p, d) ==
    LET desc == TrimSpace(d)
        row == Row(desc, FALSE, now, now)
    IN  /\ pc[p] = "idle"
        /\ IF fault[p] # "none"
           THEN /\ Return(p, CreateRequest(d), FaultErr(fault[p]), NoTodo)
                /\ UNCHANGED <<todos, nextId>>
           ELSE IF desc = <<>>
           THEN /\ Return(p, CreateRequest(d), ErrEmptyDescription, NoTodo)
                /\ UNCHANGED <<todos, nextId>>
           ELSE IF ByteLen(desc) > MaxDescriptionLength
           THEN /\ Return(p, CreateRequest(d), ErrDescriptionTooLong, NoTodo)
                /\ UNCHANGED <<todos, nextId>>
           ELSE /\ nextId <= inputs.creates
                /\ nextId' = nextId + 1
                /\ IF CheckConstraints(row)
                   THEN /\ todos' = Insert(nextId, row)
                        /\ Return(p, CreateRequest(d), NoError, toProto(nextId, row))
                   ELSE /\ todos' = todos
                        /\ Return(p, CreateRequest(d), ErrCheckViolation, NoTodo)
        /\ UNCHANGED <<now, inputs>>

Create(p, d) ==
    LET desc == TrimSpace(d)
        row == Row(desc, FALSE, now, now)
    IN  /\ pc[p] = "idle"
        /\ IF desc = <<>>
           THEN /\ Return(p, CreateRequest(d), ErrEmptyDescription, NoTodo)
                /\ UNCHANGED <<todos, nextId>>
           ELSE IF ByteLen(desc) > MaxDescriptionLength
           THEN /\ Return(p, CreateRequest(d), ErrDescriptionTooLong, NoTodo)
                /\ UNCHANGED <<todos, nextId>>
           ELSE IF fault[p] # "none"
           THEN /\ Return(p, CreateRequest(d), FaultErr(fault[p]), NoTodo)
                /\ UNCHANGED <<todos, nextId>>
           ELSE /\ nextId <= inputs.creates
                /\ nextId' = nextId + 1
                /\ IF CheckConstraints(row)
                   THEN /\ todos' = Insert(nextId, row)
                        /\ Return(p, CreateRequest(d), NoError, toProto(nextId, row))
                   ELSE /\ todos' = todos
                        /\ Return(p, CreateRequest(d), ErrCheckViolation, NoTodo)
        /\ UNCHANGED <<now, inputs>>

----------------------------------------------------------------------------
(* todoService.Get *)

GetRequest(s) == [op |-> "Get", id |-> s]

\* a Get that queries with whatever uuid.Parse left in id, and looks at the
\* parse error afterwards
GetQueriesFirst(p, s) ==
    LET parsed == UuidParse(s)
        id == parsed.id
    IN  /\ pc[p] = "idle"
        /\ IF ~Exists(id)
           THEN Return(p, GetRequest(s), ErrTodoNotFound, NoTodo)
           ELSE IF ~parsed.ok
           THEN Return(p, GetRequest(s), ErrInvalidInput, NoTodo)
           ELSE Return(p, GetRequest(s), NoError, toProto(id, todos[id]))
        /\ UNCHANGED <<todos, nextId, now, inputs>>

\* a Get that stamps the row it reads
GetTouches(p, s) ==
    LET parsed == UuidParse(s)
        id == parsed.id
    IN  /\ pc[p] = "idle"
        /\ IF ~parsed.ok
           THEN Return(p, GetRequest(s), ErrInvalidInput, NoTodo) /\ todos' = todos
           ELSE IF ~Exists(id)
           THEN Return(p, GetRequest(s), ErrTodoNotFound, NoTodo) /\ todos' = todos
           ELSE /\ todos' = [todos EXCEPT ![id].updated_at = now]
                /\ Return(p, GetRequest(s), NoError, toProto(id, todos[id]))
        /\ UNCHANGED <<nextId, now, inputs>>

\* every failure of the query is answered as a missing record
GetAnyErrorNotFound(p, s) ==
    LET parsed == UuidParse(s)
        id == parsed.id
    IN  /\ pc[p] = "idle"
        /\ IF ~parsed.ok
           THEN Return(p, GetRequest(s), ErrInvalidInput, NoTodo)
           ELSE IF fault[p] # "none" \/ ~Exists(id)
           THEN Return(p, GetRequest(s), ErrTodoNotFound, NoTodo)
           ELSE Return(p, GetRequest(s), NoError, toProto(id, todos[id]))
        /\ UNCHANGED <<todos, nextId, now, inputs>>

Get(p, s) ==
    LET parsed == UuidParse(s)
        id == parsed.id
    IN  /\ pc[p] = "idle"
        /\ IF ~parsed.ok
           THEN Return(p, GetRequest(s), ErrInvalidInput, NoTodo)
           ELSE IF fault[p] # "none"
           THEN Return(p, GetRequest(s), FaultErr(fault[p]), NoTodo)
           ELSE IF ~Exists(id)
           THEN Return(p, GetRequest(s), ErrTodoNotFound, NoTodo)
           ELSE Return(p, GetRequest(s), NoError, toProto(id, todos[id]))
        /\ UNCHANGED <<todos, nextId, now, inputs>>

----------------------------------------------------------------------------
(* todoService.Delete *)

DeleteRequest(s) == [op |-> "Delete", id |-> s]

\* a DELETE that reports a row whether or not it found one
RowsAffectedUnchecked(id) == 1

\* rows the DELETE statement affects
RowsAffected(id) == IF Exists(id) THEN 1 ELSE 0

Delete(p, s) ==
    LET parsed == UuidParse(s)
        id == parsed.id
    IN  /\ pc[p] = "idle"
        /\ IF ~parsed.ok
           THEN /\ Return(p, DeleteRequest(s), ErrInvalidInput, NoTodo)
                /\ todos' = todos
           ELSE IF fault[p] # "none"
           THEN /\ Return(p, DeleteRequest(s), FaultErr(fault[p]), NoTodo)
                /\ todos' = todos
           ELSE /\ todos' = Remove(id)
                /\ IF RowsAffected(id) = 0
                   THEN Return(p, DeleteRequest(s), ErrTodoNotFound, NoTodo)
                   ELSE Return(p, DeleteRequest(s), NoError, NoTodo)
        /\ UNCHANGED <<nextId, now, inputs>>

----------------------------------------------------------------------------
(* todoService.Update: lookup and validation, UPDATE statement, reload *)

UpdateRequest(s, d, c) ==
    [op |-> "Update", id |-> s, description |-> d, completed |-> c]

\* the map handed to gorm's Updates: a key per field the request carries
Updates(d, c) == [description |-> d, completed |-> c]

\* a map that always carries a key, so that the UPDATE is always issued
LenUpdatesWithKey(u) == 1

LenUpdates(u) == (IF u.description = None THEN 0 ELSE 1)
                 + (IF u.completed = None THEN 0 ELSE 1)

\* the row after a save of the whole struct: a field the request leaves out
\* is written with its zero value
AssignWholeStruct(row, u, t) ==
    Row(IF u.description = None THEN row.description ELSE u.description[1],
        IF u.completed = None THEN FALSE ELSE u.completed[1],
        row.created_at,
        t)

\* the row after a write that stamps both timestamps
AssignStampsBoth(row, u, t) ==
    Row(IF u.description = None THEN row.description ELSE u.description[1],
        IF u.completed = None THEN row.completed ELSE u.completed[1],
        t,
        t)

\* the row after UPDATE todos SET <updates>, updated_at = <now> WHERE id = ...
Assign(row, u, t) ==
    Row(IF u.description = None THEN row.description ELSE u.description[1],
        IF u.completed = None THEN row.completed ELSE u.completed[1],
        row.created_at,
        t)

UpdateLookup(p, s, d, c) ==
    LET parsed == UuidParse(s)
        id == parsed.id
        request == UpdateRequest(s, d, c)
        desc == IF d = None THEN None ELSE Some(TrimSpace(d[1]))
        updates == Updates(desc, c)
    IN  /\ pc[p] = "idle"
        /\ IF ~parsed.ok
           THEN Return(p, request, ErrInvalidInput, NoTodo)
           ELSE IF fault[p] # "none"
           THEN Return(p, request, FaultErr(fault[p]), NoTodo)
           ELSE IF ~Exists(id)
           THEN Return(p, request, ErrTodoNotFound, NoTodo)
           ELSE IF desc # None /\ desc[1] = <<>>
           THEN Return(p, request, ErrEmptyDescription, NoTodo)
           ELSE IF desc # None /\ ByteLen(desc[1]) > MaxDescriptionLength
           THEN Return(p, request, ErrDescriptionTooLong, NoTodo)
           ELSE /\ pc' = [pc EXCEPT ![p] =
                            IF LenUpdates(updates) > 0 THEN "update_write"
                            ELSE "update_reload"]
                /\ req' = [req EXCEPT ![p] = request]
                /\ tmp' = [tmp EXCEPT ![p] = [updates |-> updates, began |-> now]]
                /\ last' = NoCall
        /\ UNCHANGED <<todos, nextId, now, inputs>>

\* an UPDATE under an optimistic check: refused when the row was written
\* after this call began
UpdateWriteChecked(p) ==
    LET id == UuidParse(req[p].id).id
        row == Assign(todos[id], tmp[p].updates, now)
    IN  /\ pc[p] = "update_write"
        /\ IF Exists(id) /\ todos[id].updated_at > tmp[p].began
           THEN /\ Return(p, req[p], "conflict", NoTodo)
                /\ todos' = todos
           ELSE /\ todos' = IF Exists(id) THEN [todos EXCEPT ![id] = row] ELSE todos
                /\ pc' = [pc EXCEPT ![p] = "update_reload"]
                /\ last' = NoCall
                /\ UNCHANGED <<req, tmp>>
        /\ UNCHANGED <<nextId, now, inputs>>

\* an upsert in place of the UPDATE: a row that is gone is written anew
UpdateWriteUpsert(p) ==
    LET id == UuidParse(req[p].id).id
        old == IF Exists(id) THEN todos[id] ELSE Row(<<>>, FALSE, now, now)
        row == Row(IF tmp[p].updates.description = None THEN old.description
                   ELSE tmp[p].updates.description[1],
                   IF tmp[p].updates.completed = None THEN old.completed
                   ELSE tmp[p].updates.completed[1],
                   old.created_at, now)
    IN  /\ pc[p] = "update_write"
        /\ todos' = Insert(id, row)
        /\ pc' = [pc EXCEPT ![p] = "update_reload"]
        /\ last' = NoCall
        /\ UNCHANGED <<req, tmp, nextId, now, inputs>>

UpdateWrite(p) ==
    LET id == UuidParse(req[p].id).id
        row == Assign(todos[id], tmp[p].updates, now)
    IN  /\ pc[p] = "update_write"
        /\ IF fault[p] # "none"
           THEN /\ Return(p, req[p], FaultErr(fault[p]), NoTodo)
                /\ todos' = todos
           ELSE IF Exists(id) /\ ~CheckConstraints(row)
           THEN /\ Return(p, req[p], ErrCheckViolation, NoTodo)
                /\ todos' = todos
           ELSE /\ todos' = IF Exists(id) THEN [todos EXCEPT ![id] = row] ELSE todos
                /\ pc' = [pc EXCEPT ![p] = "update_reload"]
                /\ last' = NoCall
                /\ UNCHANGED <<req, tmp>>
        /\ UNCHANGED <<nextId, now, inputs>>

UpdateReload(p) ==
    LET id == UuidParse(req[p].id).id
    IN  /\ pc[p] = "update_reload"
        /\ IF fault[p] # "none"
           THEN Return(p, req[p], FaultErr(fault[p]), NoTodo)
           ELSE IF Exists(id)
           THEN Return(p, req[p], NoError, toProto(id, todos[id]))
           ELSE Return(p, req[p], ErrRecordNotFound, NoTodo)
        /\ UNCHANGED <<todos, nextId, now, inputs>>

----------------------------------------------------------------------------
(* todoService.List: COUNT, then the ordered, windowed SELECT *)

DefaultLimit == 20
MaxLimit == 100

MaxInt32 == 2147483647
MinInt32 == -MaxInt32 - 1

ListRequest(limit, offset, completed) ==
    [op |-> "List", limit |-> limit, offset |-> offset, completed |-> completed]

\* the default without the cap
EffectiveLimitUncapped(limit) == IF limit <= 0 THEN DefaultLimit ELSE limit

EffectiveLimit(limit) ==
    LET l == IF limit <= 0 THEN DefaultLimit ELSE limit
    IN  IF l > MaxLimit THEN MaxLimit ELSE l

EffectiveOffset(offset) == IF offset < 0 THEN 0 ELSE offset

\* the query without its WHERE clause
MatchingUnfiltered(completed) == DOMAIN todos

\* the rows WHERE completed = ? keeps (all of them without the clause)
Matching(completed) ==
    {id \in DOMAIN todos : completed = None \/ todos[id].completed = completed[1]}

\* the orders ORDER BY created_at DESC may deliver a set of rows in:
\* rows with equal created_at come in whatever order the database picks
Orderings(ids) ==
    {o \in [1..Cardinality(ids) -> ids] :
        /\ \A i, j \in DOMAIN o : i # j => o[i] # o[j]
        /\ \A i, j \in DOMAIN o :
              i < j => todos[o[i]].created_at >= todos[o[j]].created_at}

Min(a, b) == IF a < b THEN a ELSE b

\* LIMIT limit OFFSET offset of an ordered result
Window(o, limit, offset) ==
    LET n == IF offset >= Len(o) THEN 0 ELSE Min(limit, Len(o) - offset)
    IN  [k \in 1..n |-> o[offset + k]]

ListCount(p, limit, offset, completed) ==
    /\ pc[p] = "idle"
    /\ IF fault[p] # "none"
       THEN Return(p, ListRequest(limit, offset, completed), FaultErr(fault[p]), NoTodo)
       ELSE /\ pc' = [pc EXCEPT ![p] = "list_find"]
            /\ req' = [req EXCEPT ![p] = ListRequest(limit, offset, completed)]
            /\ tmp' = [tmp EXCEPT ![p] =
                         [limit |-> EffectiveLimit(limit),
                          offset |-> EffectiveOffset(offset),
                          total |-> Cardinality(Matching(completed))]]
            /\ last' = NoCall
    /\ UNCHANGED <<todos, nextId, now, inputs>>

ListFind(p) ==
    /\ pc[p] = "list_find"
    /\ IF fault[p] # "none"
       THEN Return(p, req[p], FaultErr(fault[p]), NoTodo)
       ELSE \E o \in Orderings(Matching(req[p].completed)) :
               LET page == Window(o, tmp[p].limit, tmp[p].offset)
               IN  Return(p, req[p], NoError,
                          [todos |-> [i \in DOMAIN page |->
                                         toProto(page[i], todos[page[i]])],
                           total |-> tmp[p].total,
                           limit |-> tmp[p].limit,
                           offset |-> tmp[p].offset])
    /\ UNCHANGED <<todos, nextId, now, inputs>>

----------------------------------------------------------------------------
(* The clock *)

Tick ==
    /\ now < MaxTime
    /\ now' = now + 1
    /\ last' = NoCall
    /\ UNCHANGED <<todos, nextId, pc, req, tmp, inputs, pages, fault, before>>

----------------------------------------------------------------------------
(* Specifications *)

\* requested limits and offsets: around each threshold of List, and the
\* ends of int32
Limits == {MinInt32, -1, 0, 1, 2, DefaultLimit, MaxLimit, MaxLimit + 1, MaxInt32}
Offsets == {MinInt32, -1, 0, 1, 2, MaxInt32}

InitService ==
    /\ todos = <<>>
    /\ nextId = 1
    /\ now = 0
    /\ pc = [p \in Procs |-> "idle"]
    /\ req = [p \in Procs |-> Idle]
    /\ tmp = [p \in Procs |-> <<>>]
    /\ last = NoCall
    /\ pages = <<>>
    /\ fault = [p \in Procs |-> "none"]
    /\ before = [p \in Procs |-> <<>>]

\* what a run's clients submit
Inputs(descriptions, updates, limits, offsets, creates) ==
    [descriptions |-> descriptions, updates |-> updates,
     limits |-> limits, offsets |-> offsets, creates |-> creates]

\* a call has its own context: what goroutine p's call met ends with the call
Served(p) ==
    fault' = [fault EXCEPT ![p] = IF pc'[p] = "idle" THEN "none" ELSE fault[p]]

\* the context of goroutine p's call is cancelled or runs out, or the
\* provider starts to fail it
Strike(p) ==
    /\ fault[p] = "none"
    /\ \E f \in Faults : fault' = [fault EXCEPT ![p] = f]
    /\ last' = NoCall
    /\ UNCHANGED <<todos, nextId, now, pc, req, tmp, inputs, pages, before>>

\* one Create, Update or Delete call by goroutine p, or its next step; the
\* pages a client holds are of no use to it once the store has changed
WriteCall(p) ==
    /\ \/ \E d \in inputs.descriptions : Create(p, d)
       \/ \E s \in IdStrings : Delete(p, s)
       \/ \E s \in IdStrings, u \in inputs.updates : UpdateLookup(p, s, u[1], u[2])
       \/ UpdateWrite(p)
       \/ UpdateReload(p)
    /\ pages' = IF todos' = todos THEN pages ELSE <<>>
    /\ Served(p)

WriteStep(p) == WriteCall(p) /\ UNCHANGED before

\* the same, by a client whose calls are audited: the rows are noted when a
\* call of more than one step begins, until it returns
AuditedStep(p) ==
    /\ WriteCall(p)
    /\ before' = [before EXCEPT ![p] =
                     IF pc'[p] = "idle" THEN <<>>
                     ELSE IF pc[p] = "idle" THEN todos
                     ELSE before[p]]

\* one Create call by goroutine p
CreateStep(p) ==
    /\ \E d \in inputs.descriptions : Create(p, d)
    /\ pages' = IF todos' = todos THEN pages ELSE <<>>
    /\ UNCHANGED before
    /\ Served(p)

\* one Get call by goroutine p
GetStep(p) ==
    (\E s \in IdStrings : Get(p, s)) /\ UNCHANGED <<pages, before>> /\ Served(p)

\* one List call by goroutine p, or its next step
ListStep(p) ==
    /\ \/ \E l \in inputs.limits, o \in inputs.offsets, c \in Optional(BOOLEAN) :
             ListCount(p, l, o, c)
       \/ ListFind(p)
    /\ UNCHANGED <<pages, before>>
    /\ Served(p)

\* one List call of a client that keeps what it gets: one page size and one
\* filter for all its calls, until the store changes
PageStep(p) ==
    /\ \/ /\ Len(pages) < MaxPages
          /\ \E l \in inputs.limits, o \in inputs.offsets, c \in Optional(BOOLEAN) :
                /\ pages # <<>> => c = pages[1].req.completed
                /\ ListCount(p, l, o, c)
          /\ UNCHANGED pages
       \/ /\ ListFind(p)
          /\ pages' = Append(pages, [req |-> last'.req, out |-> last'.out])
    /\ UNCHANGED before
    /\ Served(p)

\* Concurrent requests: records are created as "a"; an update carries
\* neither field, description "é", completed true, or both.
Init ==
    /\ InitService
    /\ inputs = Inputs({Str("a", 1)},
                       Optional({Str("e_acute", 1)}) \X Optional({TRUE}),
                       {}, {}, MaxShared)

Next == Tick \/ \E p \in Procs : WriteStep(p)

Spec == Init /\ [][Next]_vars

\* Two goroutines whose updates overlap on both fields with different values.
InitRace ==
    /\ InitService
    /\ inputs = Inputs({Str("a", 1)},
                       {<<Some(Str("e_acute", 1)), Some(TRUE)>>,
                        <<Some(Str("a", MaxDescriptionLength)), Some(FALSE)>>},
                       {}, {}, MaxShared)

SpecRace == InitRace /\ [][Next]_vars

\* Concurrent requests that create records, get them and list them, and
\* never delete or update.
InitCreates ==
    /\ InitService
    /\ inputs = Inputs({Str("a", 1)}, {}, {1, 2}, {0, 1}, MaxIds)

NextCreates == \E p \in Procs : CreateStep(p) \/ GetStep(p) \/ ListStep(p)

SpecCreates == InitCreates /\ [][NextCreates]_vars

\* One client whose calls meet cancelled contexts, deadlines and provider
\* failures: descriptions "a", " " and one of 501 code points.
InitFaults ==
    /\ InitService
    /\ LET long == <<[c |-> "a", n |-> MaxDescriptionLength], [c |-> "e_acute", n |-> 1]>>
       IN  inputs = Inputs({Str("a", 1), Str("sp", 1), long},
                           {<<Some(Str("e_acute", 1)), Some(TRUE)>>,
                            <<Some(Str("sp", 1)), None>>,
                            <<Some(long), Some(TRUE)>>},
                           {1}, {0}, MaxIds)

NextFaults == Strike(1) \/ AuditedStep(1) \/ GetStep(1) \/ ListStep(1)

SpecFaults == InitFaults /\ [][NextFaults]_vars

\* One client, one description under test per run, drawn from all strings of
\* at most MaxRuns runs; "a" is there for a row to exist.
InitValidation ==
    /\ InitService
    /\ \E d \in AllDescriptions :
          inputs = Inputs({Str("a", 1), d},
                          {<<Some(d), None>>, <<Some(d), Some(TRUE)>>},
                          {}, {}, MaxIds)

NextValidation == WriteStep(1)

SpecValidation == InitValidation /\ [][NextValidation]_vars

\* One client listing a table it fills itself, one window per run.
InitList ==
    /\ InitService
    /\ \E l \in Limits, o \in Offsets :
          inputs = Inputs({Str("a", 1)}, {<<None, Some(TRUE)>>}, {l}, {o}, MaxIds)

NextList == Tick \/ WriteStep(1) \/ GetStep(1) \/ ListStep(1)

SpecList == InitList /\ [][NextList]_vars

\* One client paging through a table it fills itself: one page size P per
\* run, offsets 0, P, 2P, ...
InitPages ==
    /\ InitService
    /\ \E P \in 1..MaxIds :
          inputs = Inputs({Str("a", 1)}, {<<None, Some(TRUE)>>},
                          {P}, {k * P : k \in 0..MaxIds}, MaxIds)

NextPages == Tick \/ WriteStep(1) \/ PageStep(1)

SpecPages == InitPages /\ [][NextPages]_vars

----------------------------------------------------------------------------
(* The validation policy as the specification words it *)

\* the code points the specification counts as Unicode whitespace: space,
\* newline, non-breaking space and zero-width space
UnicodeWhitespace == {"sp", "nl", "nbsp", "zwsp"}

WhitespaceOnly(d) == \A i \in DOMAIN d : d[i].c \in UnicodeWhitespace

\* the row a response speaks of
RowOf(todo) == todos[UuidParse(todo.id).id]

Returned(op) == last.req.op = op

----------------------------------------------------------------------------
(* Claims on validation, under SpecValidation *)

\* C1: for every description of at most 500 code points with at least one
\* non-whitespace code point, Create succeeds and the description stored and
\* returned equals the input exactly, leading and trailing whitespace and
\* newlines included.
C1_CreateKeepsDescriptionVerbatim ==
    (/\ Returned("Create")
     /\ RuneCount(last.req.description) <= 500
     /\ ~WhitespaceOnly(last.req.description))
    => /\ last.err = NoError
       /\ last.out.description = last.req.description
       /\ RowOf(last.out).description = last.req.description

\* C2: for every description made of Unicode whitespace only (the empty string
\* included), Create fails with EmptyDescription, and so does Update of an
\* existing record; no record is inserted or changed.
C2_WhitespaceOnlyRejected ==
    /\ (Returned("Create") /\ WhitespaceOnly(last.req.description))
       => last.err = ErrEmptyDescription
    /\ \A p \in Procs :
          (/\ pc[p] # "idle"
           /\ req[p].op = "Update"
           /\ req[p].description # None)
          => ~WhitespaceOnly(req[p].description[1])
    /\ \A id \in DOMAIN todos : ~WhitespaceOnly(todos[id].description)

\* C3: a description of exactly 500 code points (one of them not whitespace,
\* whatever the byte width of its characters) is accepted by Create; one of
\* 501 code points is refused with DescriptionTooLong.
C3_LimitIs500CodePoints ==
    Returned("Create") =>
       /\ (/\ RuneCount(last.req.description) = 500
           /\ ~WhitespaceOnly(last.req.description))
          => last.err = NoError
       /\ (/\ RuneCount(last.req.description) = 501
           /\ ~WhitespaceOnly(last.req.description))
          => last.err = ErrDescriptionTooLong

\* C4: the 500 limit is checked on the raw input in Create and in Update: a
\* description longer than 500 code points is refused with
\* DescriptionTooLong even when trimming would leave 500 or fewer.
C4_LimitCheckedOnRawInput ==
    /\ (/\ Returned("Create")
        /\ RuneCount(last.req.description) > 500
        /\ ~WhitespaceOnly(last.req.description))
       => last.err = ErrDescriptionTooLong
    /\ \A p \in Procs :
          (/\ pc[p] # "idle"
           /\ req[p].op = "Update"
           /\ req[p].description # None
           /\ ~WhitespaceOnly(req[p].description[1]))
          => RuneCount(req[p].description[1]) <= 500

\* invalid as the specification has it: whitespace only, or longer than 500
\* code points
InvalidEmpty(d) == WhitespaceOnly(d)
InvalidTooLong(d) == RuneCount(d) > 500

(* Steps, told by what they change.  last' holds a request exactly when the  *)
(* step returned that call.                                                 *)

\* this step returned a call of kind op
Returns(op) == last'.req.op = op

\* this step returned a call at its first step: no goroutine was inside it
ReturnsAtOnce(op) == Returns(op) /\ pc' = pc

\* this step is the first of an Update of goroutine p that goes on
UpdateProceeds(p) == pc[p] = "idle" /\ pc'[p] # "idle" /\ req'[p].op = "Update"

\* this step belongs to an Update call
UpdateActs ==
    \/ Returns("Update")
    \/ \E p \in Procs :
          pc'[p] # pc[p] /\ (req[p].op = "Update" \/ req'[p].op = "Update")

\* C7: an Update given an invalid description (empty, whitespace only or too
\* long) fails as a whole with the corresponding error and commits nothing:
\* description, completed and updated_at stay as they were, also when a
\* completed value came with it.
C7_InvalidUpdateCommitsNothing ==
    [][/\ \A p \in Procs :
             (UpdateProceeds(p) /\ req'[p].description # None)
             => /\ ~InvalidEmpty(req'[p].description[1])
                /\ ~InvalidTooLong(req'[p].description[1])
       /\ (/\ ReturnsAtOnce("Update")
           /\ UuidParse(last'.req.id).ok
           /\ Exists(UuidParse(last'.req.id).id)
           /\ last'.req.description # None
           /\ \/ InvalidEmpty(last'.req.description[1])
              \/ InvalidTooLong(last'.req.description[1]))
          => LET d == last'.req.description[1]
             IN  /\ last'.err \in {ErrEmptyDescription, ErrDescriptionTooLong}
                 /\ last'.err = ErrEmptyDescription => InvalidEmpty(d)
                 /\ last'.err = ErrDescriptionTooLong => InvalidTooLong(d)
                 /\ todos' = todos]_vars

----------------------------------------------------------------------------
(* Claims on Delete and Update, under Spec: two goroutines, every          *)
(* interleaving of their provider calls                                    *)

\* a uuid that uuid.New() has handed out
Issued(id) == id < nextId

\* C5: Delete succeeds exactly once per identifier.  A Delete of a stored
\* record succeeds and removes it; a Delete of a record that is not stored
\* fails with NotFound; and a removed record never comes back, so of any two
\* Deletes of one identifier, however they interleave, the first succeeds and
\* the second gets NotFound.
C5_DeleteExactlyOnce ==
    [][/\ (Returns("Delete") /\ UuidParse(last'.req.id).ok)
          => LET id == UuidParse(last'.req.id).id
             IN  /\ Exists(id) => last'.err = NoError
                 /\ ~Exists(id) => last'.err = ErrTodoNotFound
                 /\ id \notin DOMAIN todos'
       /\ \A id \in Uuids :
             (Issued(id) /\ ~Exists(id)) => id \notin DOMAIN todos']_vars

\* C5 happens: a second Delete of a record that was created and deleted has
\* just returned NotFound
C5_Witness ==
    /\ Returned("Delete")
    /\ last.err = ErrTodoNotFound
    /\ UuidParse(last.req.id).ok
    /\ Issued(UuidParse(last.req.id).id)

\* C6: Update never creates a record.  An Update of a well-formed identifier
\* that is not stored fails with NotFound and leaves the store as it is, and
\* no step of any Update, in any interleaving, adds a record to the store.
C6_UpdateNeverCreates ==
    [][/\ (/\ ReturnsAtOnce("Update")
           /\ UuidParse(last'.req.id).ok
           /\ ~Exists(UuidParse(last'.req.id).id))
          => /\ last'.err = ErrTodoNotFound
             /\ todos' = todos
       /\ \A p \in Procs :
             UpdateProceeds(p) => Exists(UuidParse(req'[p].id).id)
       /\ UpdateActs => DOMAIN todos' = DOMAIN todos]_vars

\* C6 happens: an Update has issued its UPDATE statement for a record that
\* another goroutine deleted after the lookup, and the record is still absent
C6_Witness ==
    \E p \in Procs :
       /\ pc[p] = "update_reload"
       /\ LenUpdates(tmp[p].updates) > 0
       /\ ~Exists(UuidParse(req[p].id).id)

\* this step is the last of an Update of goroutine p: its reload
UpdateReturns(p) == pc[p] = "update_reload" /\ pc'[p] = "idle"

\* the request carries neither description nor completed
NoFields(r) == r.description = None /\ r.completed = None

\* C8 as the specification words it: an Update of an existing record with
\* neither description nor completed supplied succeeds, refreshes updated_at
\* to the operation's time, and returns the record with description,
\* completed and created_at unchanged.
C8_NoFieldUpdateRefreshes ==
    [][\A p \in Procs :
          (/\ UpdateReturns(p)
           /\ NoFields(req[p])
           /\ Exists(UuidParse(req[p].id).id))
          => LET old == todos[UuidParse(req[p].id).id]
             IN  /\ last'.err = NoError
                 /\ last'.out.description = old.description
                 /\ last'.out.completed = old.completed
                 /\ last'.out.created_at = old.created_at
                 /\ last'.out.updated_at >= tmp[p].began]_vars

\* C8, amended: an Update of an existing record with neither description nor
\* completed supplied writes nothing.  No UPDATE is issued, no step of the
\* call changes the store (updated_at is not refreshed), and, when the record
\* is still stored at the reload, the call succeeds and returns the record as
\* stored.
C8_NoFieldUpdateWritesNothing ==
    [][\A p \in Procs :
          /\ (UpdateProceeds(p) /\ NoFields(req'[p]))
             => /\ pc'[p] = "update_reload"
                /\ todos' = todos
          /\ (UpdateReturns(p) /\ NoFields(req[p]))
             => /\ todos' = todos
                /\ Exists(UuidParse(req[p].id).id)
                   => /\ last'.err = NoError
                      /\ last'.out = toProto(UuidParse(req[p].id).id,
                                             todos[UuidParse(req[p].id).id])]_vars

\* C8 happens: an Update with neither field has returned a record whose
\* updated_at is older than the clock
C8_Witness ==
    /\ Returned("Update")
    /\ NoFields(last.req)
    /\ last.err = NoError
    /\ last.out.updated_at < now

\* C9: a successful Update changes only the fields supplied, and updated_at.
\* Its UPDATE statement leaves every other row as it is, leaves description
\* unchanged when none is supplied, leaves completed unchanged when none is
\* supplied and sets it to the supplied value otherwise, leaves created_at
\* unchanged, and sets updated_at to the clock's reading, never earlier than
\* before.  A completed value is never a reason to refuse an Update of a
\* stored record, its current value included, and the reload of a stored
\* record returns it as stored.
C9_UpdateChangesOnlySupplied ==
    [][/\ \A p \in Procs :
             (/\ pc[p] = "update_write"
              /\ pc'[p] = "update_reload"
              /\ Exists(UuidParse(req[p].id).id))
             => LET id == UuidParse(req[p].id).id
                IN  /\ DOMAIN todos' = DOMAIN todos
                    /\ \A other \in DOMAIN todos \ {id} : todos'[other] = todos[other]
                    /\ req[p].description = None
                       => todos'[id].description = todos[id].description
                    /\ req[p].completed = None
                       => todos'[id].completed = todos[id].completed
                    /\ req[p].completed # None
                       => todos'[id].completed = req[p].completed[1]
                    /\ todos'[id].created_at = todos[id].created_at
                    /\ todos'[id].updated_at = now
                    /\ todos'[id].updated_at >= todos[id].updated_at
       /\ (/\ ReturnsAtOnce("Update")
           /\ UuidParse(last'.req.id).ok
           /\ Exists(UuidParse(last'.req.id).id))
          => last'.req.description # None
       /\ \A p \in Procs :
             (/\ UpdateReturns(p)
              /\ ~NoFields(req[p])
              /\ Exists(UuidParse(req[p].id).id))
             => /\ last'.err = NoError
                /\ last'.out = toProto(UuidParse(req[p].id).id,
                                       todos[UuidParse(req[p].id).id])
                /\ todos' = todos]_vars

\* C9 happens: an Update with only completed supplied has returned the record
\* completed, its description as created, its updated_at later than its
\* created_at
C9_Witness ==
    /\ Returned("Update")
    /\ last.err = NoError
    /\ last.req.description = None
    /\ last.req.completed = Some(TRUE)
    /\ last.out.completed
    /\ last.out.description = Str("a", 1)
    /\ last.out.updated_at > last.out.created_at

----------------------------------------------------------------------------
(* Claims on List, under SpecList *)

\* C10: List normalises its window for every requested limit and offset.  The
\* limit in effect is 20 for a request of 0 (absent) or less, 100 for a
\* request above 100, the request otherwise; the offset in effect is 0 for a
\* negative request, the request otherwise; the response reports both, and
\* carries no more records than the limit in effect.
C10_ListNormalisesWindow ==
    Returned("List") =>
       /\ last.err = NoError
       /\ last.req.limit <= 0 => last.out.limit = 20
       /\ last.req.limit > 100 => last.out.limit = 100
       /\ (last.req.limit > 0 /\ last.req.limit <= 100)
          => last.out.limit = last.req.limit
       /\ last.req.offset < 0 => last.out.offset = 0
       /\ last.req.offset >= 0 => last.out.offset = last.req.offset
       /\ Len(last.out.todos) <= last.out.limit

\* C10 happens: a List for one record, of a table of two, has returned one
C10_Witness ==
    /\ Returned("List")
    /\ last.req.limit = 1
    /\ last.req.completed = None
    /\ Cardinality(DOMAIN todos) = 2
    /\ Len(last.out.todos) = 1

\* the stored records a completed filter selects, as the specification has it
Selected(filter) ==
    {id \in DOMAIN todos : filter # None => todos[id].completed = filter[1]}

\* C11: the total List reports is the number of stored records that match
\* the completed filter (all records without a filter), whatever the limit
\* and the offset, and every record of the page matches the filter.
C11_ListTotalCountsMatching ==
    Returned("List") =>
       /\ last.out.total = Cardinality(Selected(last.req.completed))
       /\ \A i \in DOMAIN last.out.todos :
             /\ UuidParse(last.out.todos[i].id).id \in Selected(last.req.completed)
             /\ last.req.completed # None
                => last.out.todos[i].completed = last.req.completed[1]

\* C11 happens: of two stored records one is completed; a List of the
\* completed ones, its window past the end, has returned no record and a
\* total of one
C11_Witness ==
    /\ Returned("List")
    /\ last.req.completed = Some(TRUE)
    /\ Cardinality(DOMAIN todos) = 2
    /\ last.out.total = 1
    /\ last.out.offset >= 1
    /\ last.out.todos = <<>>

----------------------------------------------------------------------------
(* Claims on paging, under SpecPages *)

\* the identifiers of the records of the pages from the k-th on, in order
RECURSIVE Concat(_)
Concat(k) ==
    IF k > Len(pages) THEN <<>>
    ELSE [i \in DOMAIN pages[k].out.todos |->
             UuidParse(pages[k].out.todos[i].id).id] \o Concat(k + 1)

\* the client has asked for offsets 0, P, 2P, ... in turn, up to a page that
\* came back short
PagedThrough ==
    /\ pages # <<>>
    /\ \A k \in DOMAIN pages :
          pages[k].req.offset = (k - 1) * pages[1].req.limit
    /\ Len(pages[Len(pages)].out.todos) < pages[1].req.limit

\* C12: on an unchanging store, for a page size P and a filter, the pages at
\* offsets 0, P, 2P, ... put together hold every matching record exactly
\* once, newest-created first: a record created later comes before one
\* created earlier (identifiers are handed out in the order of creation).
C12_PagesCoverOnceNewestFirst ==
    PagedThrough =>
       LET all == Concat(1)
       IN  /\ {all[i] : i \in DOMAIN all} = Selected(pages[1].req.completed)
           /\ Len(all) = Cardinality(Selected(pages[1].req.completed))
           /\ \A i, j \in DOMAIN all : i < j => all[i] > all[j]

\* C13: List is deterministic on a snapshot: two calls with the same limit,
\* offset and filter on an unchanged store return the same records in the
\* same order, also when records share their created_at.
C13_ListDeterministic ==
    \A i, j \in DOMAIN pages :
       pages[i].req = pages[j].req => pages[i].out = pages[j].out

----------------------------------------------------------------------------
(* Claims on Get and on reads, under SpecList *)

\* C14: Get classifies identifiers in a fixed order.  A malformed identifier
\* fails with InvalidInput whatever the store holds; a well-formed one with
\* no stored record fails with NotFound; otherwise Get returns the stored
\* record, its identifier, description, completed, created_at and updated_at
\* equal to what is stored.
C14_GetClassifies ==
    Returned("Get") =>
       LET parsed == UuidParse(last.req.id)
       IN  /\ ~parsed.ok => (last.err = ErrInvalidInput /\ last.out = NoTodo)
           /\ (parsed.ok /\ parsed.id \notin DOMAIN todos)
              => (last.err = ErrTodoNotFound /\ last.out = NoTodo)
           /\ (parsed.ok /\ parsed.id \in DOMAIN todos)
              => /\ last.err = NoError
                 /\ last.out.id = last.req.id
                 /\ last.out.description = todos[parsed.id].description
                 /\ last.out.completed = todos[parsed.id].completed
                 /\ last.out.created_at = todos[parsed.id].created_at
                 /\ last.out.updated_at = todos[parsed.id].updated_at

\* C14 happens: Get has returned a record that was completed after the
\* clock moved
C14_Witness ==
    /\ Returned("Get")
    /\ last.err = NoError
    /\ last.out.completed
    /\ last.out.updated_at > last.out.created_at

\* this step belongs to a Get or a List call
ReadActs ==
    \/ Returns("Get")
    \/ Returns("List")
    \/ \E p \in Procs : pc[p] = "idle" /\ pc'[p] = "list_find"

\* C15: Get and List are read-only: no step of either changes a stored
\* record or the set of records; and a Get that follows a Get of the same
\* identifier with nothing in between returns what the first returned.
C15_ReadsChangeNothing ==
    [][/\ ReadActs => (todos' = todos /\ nextId' = nextId)
       /\ (Returned("Get") /\ Returns("Get") /\ last'.req = last.req)
          => (last'.err = last.err /\ last'.out = last.out)]_vars

\* C15 happens: a List has returned both records of the store, and they are
\* still stored as returned
C15_Witness ==
    /\ Returned("List")
    /\ Len(last.out.todos) = 2
    /\ \A i \in DOMAIN last.out.todos :
          /\ UuidParse(last.out.todos[i].id).id \in DOMAIN todos
          /\ last.out.todos[i] =
                toProto(UuidParse(last.out.todos[i].id).id, RowOf(last.out.todos[i]))

----------------------------------------------------------------------------
(* Claims on the life of a record *)

\* C16: every successful Create inserts exactly one record.  Its identifier
\* is generated by the service and is that of no record that is or ever was
\* stored; completed is false, created_at and updated_at are both the time
\* of the call; every other record stays as it is, and the record returned
\* is the record stored.  A Create that fails inserts nothing.
C16_CreateInsertsOneFresh ==
    [][Returns("Create") =>
          IF last'.err = NoError
          THEN LET id == UuidParse(last'.out.id).id
               IN  /\ UuidParse(last'.out.id).ok
                   /\ ~Issued(id)
                   /\ id \notin DOMAIN todos
                   /\ DOMAIN todos' = DOMAIN todos \cup {id}
                   /\ \A other \in DOMAIN todos : todos'[other] = todos[other]
                   /\ todos'[id].completed = FALSE
                   /\ todos'[id].created_at = now
                   /\ todos'[id].updated_at = todos'[id].created_at
                   /\ last'.out = toProto(id, todos'[id])
          ELSE todos' = todos]_vars

\* C16 happens: after the first record was deleted, a Create at a later time
\* has returned the second record, the only one stored
C16_Witness ==
    /\ Returned("Create")
    /\ last.err = NoError
    /\ last.out.id = IdString(2)
    /\ DOMAIN todos = {2}
    /\ last.out.created_at > 0

\* the step returned a record
ReturnsRecord ==
    /\ \/ Returns("Create")
       \/ Returns("Get")
       \/ Returns("Update")
    /\ last'.err = NoError

\* C17: the identifier and the created_at of a record never change between
\* its creation and its deletion.  No step changes the created_at of a
\* record that stays stored; the record an Update returns carries the
\* identifier it was asked for; and every record returned carries the
\* created_at that is stored under its identifier.
C17_IdAndCreatedAtImmutable ==
    [][/\ \A id \in DOMAIN todos \cap DOMAIN todos' :
             todos'[id].created_at = todos[id].created_at
       /\ (Returns("Update") /\ last'.err = NoError)
          => last'.out.id = last'.req.id
       /\ ReturnsRecord
          => /\ UuidParse(last'.out.id).ok
             /\ UuidParse(last'.out.id).id \in DOMAIN todos'
             /\ last'.out.created_at = todos'[UuidParse(last'.out.id).id].created_at]_vars

\* C17 happens: an Update of description and completed, written after the
\* clock moved, has returned the record with the created_at of its creation
C17_Witness ==
    /\ Returned("Update")
    /\ last.err = NoError
    /\ last.req.description # None
    /\ last.req.completed # None
    /\ last.out.description = last.req.description[1]
    /\ last.out.created_at = 0
    /\ last.out.updated_at = 1

\* C18: a record goes from nonexistent to active with completed = false, then
\* between completed = false and completed = true, then to deleted, and makes
\* no other move.  A record appears only by a successful Create and appears
\* not completed; its completed flag changes only in an Update of it; it
\* disappears only by a successful Delete of it, which does remove it; and
\* deleted is terminal: it is never stored again whatever Creates follow, and
\* every Get, Update and Delete of it from then on returns NotFound.
C18_Lifecycle ==
    [][/\ \A id \in DOMAIN todos' \ DOMAIN todos :
             /\ Returns("Create") /\ last'.err = NoError
             /\ last'.out.id = IdString(id)
             /\ ~todos'[id].completed
             /\ ~Issued(id)
       /\ \A id \in DOMAIN todos \cap DOMAIN todos' :
             todos'[id].completed # todos[id].completed
             => \E p \in Procs : /\ pc[p] = "update_write"
                                 /\ pc'[p] = "update_reload"
                                 /\ req[p].id = IdString(id)
       /\ \A id \in DOMAIN todos \ DOMAIN todos' :
             /\ Returns("Delete") /\ last'.err = NoError
             /\ last'.req.id = IdString(id)
       /\ (Returns("Delete") /\ last'.err = NoError)
          => UuidParse(last'.req.id).id \notin DOMAIN todos'
       /\ \A id \in Uuids :
             (Issued(id) /\ ~Exists(id))
             => /\ id \notin DOMAIN todos'
                /\ (/\ \/ Returns("Get")
                       \/ ReturnsAtOnce("Update")
                       \/ Returns("Delete")
                    /\ last'.req.id = IdString(id))
                   => last'.err = ErrTodoNotFound]_vars

\* C18 happens: the first record was deleted, a second was created, and a
\* Get of the first has returned NotFound
C18_Witness ==
    /\ Returned("Get")
    /\ last.req.id = IdString(1)
    /\ last.err = ErrTodoNotFound
    /\ Issued(1)
    /\ DOMAIN todos = {2}

----------------------------------------------------------------------------
(* Claims on concurrent Updates *)

\* C19: absent provider failure and cancellation, an Update returns either
\* the full updated record or one of InvalidInput, NotFound,
\* EmptyDescription, DescriptionTooLong, in every interleaving, also when a
\* Delete of the identifier takes effect between the lookup and the reload;
\* a record that was merely deleted is never answered with an Internal error.
C19_UpdateNeverInternal ==
    Returned("Update") =>
       \/ /\ last.err = NoError
          /\ last.out # NoTodo
          /\ last.out.id = last.req.id
       \/ /\ last.err \in {ErrInvalidInput, ErrTodoNotFound,
                           ErrEmptyDescription, ErrDescriptionTooLong}
          /\ HandleServiceError(last.err) # "INTERNAL_ERROR"

\* C20: when two Updates of one identifier run concurrently, each field both
\* supply holds afterwards the value of the write applied last, and neither
\* call fails with a conflict error.  Every UPDATE of a stored record is
\* applied, whatever another goroutine wrote since this call looked the
\* record up, and leaves each field it supplies at the value it supplies; and
\* an Update whose record is stored at its reload succeeds.
C20_LastWriteWins ==
    [][\A p \in Procs :
          /\ (/\ pc[p] = "update_write"
              /\ pc'[p] # pc[p]
              /\ Exists(UuidParse(req[p].id).id))
             => LET id == UuidParse(req[p].id).id
                    u == tmp[p].updates
                IN  /\ pc'[p] = "update_reload"
                    /\ id \in DOMAIN todos'
                    /\ u.description # None
                       => todos'[id].description = u.description[1]
                    /\ u.completed # None
                       => todos'[id].completed = u.completed[1]
          /\ (UpdateReturns(p) /\ Exists(UuidParse(req[p].id).id))
             => last'.err = NoError]_vars

\* C20 happens: both goroutines have written description and completed of
\* one record, with different values, and the record holds what the second
\* goroutine wrote
C20_Witness ==
    /\ pc[1] = "update_reload"
    /\ pc[2] = "update_reload"
    /\ req[1].id = req[2].id
    /\ tmp[1].updates # tmp[2].updates
    /\ LenUpdates(tmp[1].updates) = 2
    /\ LenUpdates(tmp[2].updates) = 2
    /\ Exists(UuidParse(req[2].id).id)
    /\ todos[UuidParse(req[2].id).id].description = tmp[2].updates.description[1]
    /\ todos[UuidParse(req[2].id).id].completed = tmp[2].updates.completed[1]

----------------------------------------------------------------------------
(* Claims on cancellation, provider failure and the HTTP answer, under      *)
(* SpecFaults                                                               *)

\* goroutine p took this step
Stepped(p) ==
    \/ pc'[p] # pc[p]
    \/ /\ pc[p] = "idle"
       /\ last'.req.op # "none"
       /\ \A q \in Procs \ {p} : pc'[q] = pc[q] /\ fault[q] = "none"

\* C22: when the caller's context is cancelled or past its deadline, a call
\* that reaches the provider returns an error recognisable as cancellation
\* or deadline: the step ends the call, its error is context.Canceled or
\* context.DeadlineExceeded as the case is, answered 499 or 504, never
\* EmptyDescription, DescriptionTooLong, InvalidInput or NotFound, and
\* never success; nothing is stored or changed, and a Create with an
\* already cancelled context inserts no record.  Only a call refused before
\* it reaches the provider (bad identifier, bad description) returns its
\* own error.
C22_CancellationRecognisable ==
    [][\A p \in Procs :
          (Stepped(p) /\ fault[p] \in {"canceled", "deadline"})
          => /\ pc'[p] = "idle"
             /\ todos' = todos
             /\ last'.err # NoError
             /\ last'.err # ErrTodoNotFound
             /\ pc[p] # "idle" => last'.err = FaultErr(fault[p])
             /\ last'.err \notin {ErrInvalidInput, ErrEmptyDescription,
                                  ErrDescriptionTooLong}
                => /\ last'.err = IF fault[p] = "canceled" THEN ErrCanceled
                                  ELSE ErrDeadlineExceeded
                   /\ ErrorStatus(last'.err) =
                         IF fault[p] = "canceled" THEN 499 ELSE 504
             /\ (last'.req.op = "Create" /\ last'.req.description = Str("a", 1))
                => last'.err = FaultErr(fault[p])]_vars

\* C22 happens: a Create of "a" has returned context.Canceled and the store
\* is empty
C22_Witness ==
    /\ Returned("Create")
    /\ last.req.description = Str("a", 1)
    /\ last.err = ErrCanceled
    /\ todos = <<>>

\* C23: the HTTP layer answers every call with exactly one status, decided
\* by the error the service returned: EmptyDescription, DescriptionTooLong
\* and InvalidInput are answered 400, NotFound 404, cancellation 499, an
\* expired deadline 504 and every other error 500; a successful Create is
\* answered 201, a successful Get, List or Update 200 and a successful
\* Delete 204.
C23_StatusPerError ==
    last.req.op # "none" =>
        LET status == ResponseStatus(last.req.op, last.err)
        IN  /\ last.err \in {ErrEmptyDescription, ErrDescriptionTooLong,
                             ErrInvalidInput} => status = 400
            /\ last.err = ErrTodoNotFound => status = 404
            /\ last.err = ErrCanceled => status = 499
            /\ last.err = ErrDeadlineExceeded => status = 504
            /\ last.err \notin {NoError, ErrEmptyDescription,
                                ErrDescriptionTooLong, ErrInvalidInput,
                                ErrTodoNotFound, ErrCanceled,
                                ErrDeadlineExceeded} => status = 500
            /\ (last.err = NoError /\ last.req.op = "Create") => status = 201
            /\ (last.err = NoError /\ last.req.op \in {"Get", "List", "Update"})
               => status = 200
            /\ (last.err = NoError /\ last.req.op = "Delete") => status = 204

\* C23 happens: a Delete of a well-formed identifier that names no record
\* has been answered 404
C23_Witness ==
    /\ Returned("Delete")
    /\ last.err = ErrTodoNotFound
    /\ ResponseStatus(last.req.op, last.err) = 404

\* the description fails the checks Create and Update apply to it
FailsValidation(d) ==
    \/ TrimSpace(d) = <<>>
    \/ ByteLen(TrimSpace(d)) > MaxDescriptionLength

\* C24 as stated: in Create and in Update a description that fails
\* validation is reported as such before the provider is asked anything, so
\* a call with such a description and a well-formed identifier returns
\* EmptyDescription or DescriptionTooLong whatever the store holds and
\* whatever the state of the context.
C24_ValidationBeforeProvider ==
    [][/\ (Returns("Create") /\ FailsValidation(last'.req.description))
          => /\ last'.err \in {ErrEmptyDescription, ErrDescriptionTooLong}
             /\ todos' = todos
       /\ (/\ ReturnsAtOnce("Update")
           /\ UuidParse(last'.req.id).ok
           /\ last'.req.description # None
           /\ FailsValidation(last'.req.description[1]))
          => /\ last'.err \in {ErrEmptyDescription, ErrDescriptionTooLong}
             /\ todos' = todos]_vars

\* C24, amended: a Create whose description fails validation is refused
\* before the provider is asked anything: it returns EmptyDescription or
\* DescriptionTooLong whatever the store holds and whatever the state of
\* the context.  An Update reads the record first and validates next,
\* before any write: an Update that returns EmptyDescription or
\* DescriptionTooLong returns at its first step, after a lookup that found
\* the record, and has written nothing, and no Update whose description
\* fails validation goes on to its write.
C24_ValidationBeforeWrite ==
    [][/\ (Returns("Create") /\ FailsValidation(last'.req.description))
          => /\ last'.err \in {ErrEmptyDescription, ErrDescriptionTooLong}
             /\ todos' = todos
             /\ nextId' = nextId
       /\ \A p \in Procs :
             (UpdateProceeds(p) /\ req'[p].description # None)
             => ~FailsValidation(req'[p].description[1])
       /\ (/\ Returns("Update")
           /\ last'.err \in {ErrEmptyDescription, ErrDescriptionTooLong})
          => /\ pc' = pc
             /\ todos' = todos
             /\ last'.req.description # None
             /\ FailsValidation(last'.req.description[1])
             /\ Exists(UuidParse(last'.req.id).id)
       /\ (/\ ReturnsAtOnce("Update")
           /\ last'.req.description # None
           /\ FailsValidation(last'.req.description[1]))
          => todos' = todos]_vars

\* C24 happens: an Update of a stored record has been refused with
\* EmptyDescription
C24_Witness ==
    /\ Returned("Update")
    /\ last.err = ErrEmptyDescription
    /\ Exists(UuidParse(last.req.id).id)

\* C26: Update is all or nothing.  Whenever an Update returns an error, at
\* whichever of its steps and also when its context is cancelled or the
\* provider fails after the write and before the reload, the record it
\* names is stored as it was before the call.
C26_UpdateAllOrNothing ==
    [][/\ (ReturnsAtOnce("Update") /\ last'.err # NoError) => todos' = todos
       /\ \A p \in Procs :
             (/\ pc[p] \in {"update_write", "update_reload"}
              /\ pc'[p] = "idle"
              /\ last'.err # NoError)
             => LET id == UuidParse(req[p].id).id
                IN  /\ id \in DOMAIN todos'
                    /\ todos'[id] = before[p][id]]_vars

----------------------------------------------------------------------------
(* Claims on atomicity *)

\* C25: each of Create, Get, List, Update and Delete issues exactly one
\* interaction with the provider per call and so takes effect atomically:
\* no call is ever between two of its provider calls, where the calls of
\* another goroutine can come in between.
C25_OneInteractionPerCall ==
    \A p \in Procs : pc[p] = "idle"

\* C21: no successful Create is lost.  With goroutines that create, get and
\* list concurrently and nothing deleted, every Create succeeds and adds one
\* record under an identifier of its own, the store holds exactly as many
\* records as Creates have succeeded, a List counts that many at its COUNT,
\* and a Get of any identifier a Create has returned finds its record.
C21_NoCreateLost ==
    [][/\ Cardinality(DOMAIN todos) = nextId - 1
       /\ Returns("Create")
          => /\ last'.err = NoError
             /\ UuidParse(last'.out.id).id \notin DOMAIN todos
             /\ DOMAIN todos' = DOMAIN todos \cup {UuidParse(last'.out.id).id}
             /\ \A id \in DOMAIN todos : todos'[id] = todos[id]
             /\ Cardinality(DOMAIN todos') = nextId' - 1
       /\ \A p \in Procs :
             (pc[p] = "idle" /\ pc'[p] = "list_find" /\ req'[p].completed = None)
             => tmp'[p].total = nextId - 1
       /\ (Returns("Get") /\ UuidParse(last'.req.id).ok
           /\ Issued(UuidParse(last'.req.id).id))
          => /\ last'.err = NoError
             /\ last'.out.id = last'.req.id]_vars

\* C21 happens: a Get has returned the second of two records created while
\* the other goroutine is inside a List
C21_Witness ==
    /\ Returned("Get")
    /\ last.err = NoError
    /\ last.out.id = IdString(2)
    /\ Cardinality(DOMAIN todos) = 2
    /\ \E p \in Procs : pc[p] = "list_find"

Max(a, b) == IF a > b THEN a ELSE b

\* C27: a List response is consistent in itself in every interleaving: it
\* carries as many records as its own total, limit and offset allow,
\* min(limit, max(0, total - offset)).
C27_ListPageFitsTotal ==
    (Returned("List") /\ last.err = NoError)
    => Len(last.out.todos)
          = Min(last.out.limit, Max(0, last.out.total - last.out.offset))

\* C28: the record a successful Update returns carries the caller's own
\* value for every field the caller supplied (the description as trimmed),
\* also when another Update comes between this call's write and its reload.
C28_UpdateReturnsOwnValues ==
    (Returned("Update") /\ last.err = NoError)
    => /\ last.req.description # None
          => last.out.description = TrimSpace(last.req.description[1])
       /\ last.req.completed # None
          => last.out.completed = last.req.completed[1]

----------------------------------------------------------------------------
(* Claims on the stored records *)

\* C29: every stored record has a description with at least one code point
\* that is not whitespace and at most 500 code points, and an updated_at
\* that is not before its created_at.
C29_StoredRecordsValid ==
    \A id \in DOMAIN todos :
       /\ ~WhitespaceOnly(todos[id].description)
       /\ RuneCount(todos[id].description) <= 500
       /\ todos[id].updated_at >= todos[id].created_at

\* the parts of C29 that do not turn on what counts as whitespace
C29_LengthAndTimes ==
    \A id \in DOMAIN todos :
       /\ RuneCount(todos[id].description) <= 500
       /\ todos[id].updated_at >= todos[id].created_at

\* C30: Delete affects only its target.  A successful Delete names a stored
\* record, removes exactly it and leaves every other record as it was,
\* whatever its completed state; a Delete of a malformed identifier fails
\* with InvalidInput whatever the provider would have said; and a Delete
\* that fails with InvalidInput or NotFound leaves the whole store as it
\* was.
C30_DeleteOnlyItsTarget ==
    [][Returns("Delete")
       => LET parsed == UuidParse(last'.req.id)
          IN  /\ last'.err = NoError
                 => /\ parsed.ok
                    /\ Exists(parsed.id)
                    /\ DOMAIN todos' = DOMAIN todos \ {parsed.id}
                    /\ \A i \in DOMAIN todos' : todos'[i] = todos[i]
              /\ ~parsed.ok => last'.err = ErrInvalidInput
              /\ last'.err \in {ErrInvalidInput, ErrTodoNotFound}
                 => todos' = todos]_vars

\* C30 happens: a Delete has succeeded and the other record, a completed
\* one, is still stored
C30_Witness ==
    /\ Returned("Delete")
    /\ last.err = NoError
    /\ \E i \in DOMAIN todos :
          /\ i # UuidParse(last.req.id).id
          /\ todos[i].completed

====
